---------------------------- MODULE Spec2Model ----------------------------
(***************************************************************************)
(* Model of Backtester (src/backtester/backtester.py): the per-asset       *)
(* cash/position bookkeeping of execute_trade, the revaluation of          *)
(* update_portfolio and the aggregation loop of backtest.                  *)
(*                                                                         *)
(* Floats are modelled as exact rationals <<n, d>> in lowest terms with    *)
(* d > 0, extended with the three IEEE-754 specials the arithmetic of the  *)
(* code can produce on a zero close price (the rows of a DataFrame are     *)
(* numpy scalars, whose division by zero yields inf or nan):               *)
(* <<1, 0>> = +inf, <<-1, 0>> = -inf, <<0, 0>> = nan.                      *)
(***************************************************************************)
EXTENDS Integers, Sequences, FiniteSets, TLC

\* ------------------------------------------------------------- bounds

\* Longest per-asset series (number of rows of a DataFrame).
MaxLen == 3

\* Longest series of portfolio values handed to a performance function.
MaxValues == 3

\* Most rows of a two-asset data argument, both series together.
MaxRows == 4

\* Number of times backtest is called on one Backtester instance.
MaxCalls == 2

\* Most assets of a data argument whose assets all carry the same series.
MaxAssets == 3

\* ------------------------------------------------------------- numbers

Zero == <<0, 1>>
NaN == <<0, 0>>
PosInf == <<1, 0>>
NegInf == <<-1, 0>>

Num(n) == <<n, 1>>

Abs(n) == IF n < 0 THEN -n ELSE n

Sign(n) == IF n > 0 THEN 1 ELSE IF n < 0 THEN -1 ELSE 0

RECURSIVE GCD(_, _)
GCD(a, b) == IF b = 0 THEN a ELSE GCD(b, a % b)

LCM(a, b) == (a \div GCD(a, b)) * b

\* The rational n / d (d # 0) in lowest terms with a positive denominator.
Rat(n, d) ==
  LET g == GCD(Abs(n), Abs(d))
  IN <<Sign(d) * (n \div g), Abs(d) \div g>>

IsNaN(a) == a = NaN

IsFinite(a) == a[2] # 0

\* a + b
Add(a, b) ==
  IF IsNaN(a) \/ IsNaN(b) THEN NaN
  ELSE IF ~IsFinite(a) /\ ~IsFinite(b) THEN (IF a = b THEN a ELSE NaN)
  ELSE IF ~IsFinite(a) THEN a
  ELSE IF ~IsFinite(b) THEN b
  ELSE LET l == LCM(a[2], b[2])
       IN Rat(a[1] * (l \div a[2]) + b[1] * (l \div b[2]), l)

Neg(a) == <<-a[1], a[2]>>

\* a - b
Sub(a, b) == Add(a, Neg(b))

\* a * b
Mul(a, b) ==
  IF IsNaN(a) \/ IsNaN(b) THEN NaN
  ELSE IF ~IsFinite(a) \/ ~IsFinite(b)
    THEN (IF a[1] = 0 \/ b[1] = 0 THEN NaN ELSE <<Sign(a[1]) * Sign(b[1]), 0>>)
  ELSE LET g1 == GCD(Abs(a[1]), b[2])
           g2 == GCD(Abs(b[1]), a[2])
       IN Rat((a[1] \div g1) * (b[1] \div g2), (a[2] \div g2) * (b[2] \div g1))

\* a / b, numpy's true division: x / 0 is +-inf, 0 / 0 is nan.
Div(a, b) ==
  IF IsNaN(a) \/ IsNaN(b) THEN NaN
  ELSE IF ~IsFinite(b) THEN (IF IsFinite(a) THEN Zero ELSE NaN)
  ELSE IF b[1] = 0 THEN (IF a[1] = 0 THEN NaN ELSE <<Sign(a[1]), 0>>)
  ELSE IF ~IsFinite(a) THEN <<Sign(a[1]) * Sign(b[1]), 0>>
  ELSE Mul(a, Rat(b[2], b[1]))

\* a > b; every comparison with nan is false.
Gt(a, b) ==
  IF IsNaN(a) \/ IsNaN(b) THEN FALSE
  ELSE IF a = b THEN FALSE
  ELSE IF ~IsFinite(a) THEN a = PosInf
  ELSE IF ~IsFinite(b) THEN b = NegInf
  ELSE LET l == LCM(a[2], b[2])
       IN a[1] * (l \div a[2]) > b[1] * (l \div b[2])

\* Python's max(a, b): b replaces a only when b > a.
Max2(a, b) == IF Gt(b, a) THEN b ELSE a

\* ------------------------------------------------------------- inputs

\* close prices: well-formed (> 0) and malformed (<= 0).
GoodCloses == {Num(1), Num(2)}
BadCloses == {Num(0), Num(-1)}

Signals == {-1, 0, 1}

\* The rate of the percentage commission, 1/10.
CommissionPct == Rat(1, 10)

\* Constructor arguments <<initial_capital, commission_fixed>>: a capital the
\* fixed fee eats up, a capital on which the percentage fee exceeds the fixed
\* fee, and no fixed fee at all; then the malformed capitals.
GoodConfigs == {<<Num(1), Num(1)>>, <<Num(40), Num(1)>>, <<Num(40), Num(0)>>}
BadConfigs == {<<Num(0), Num(1)>>, <<Num(-1), Num(1)>>}

Records(closes) == [close : closes, signal : Signals]

SeriesOfLen(closes, n) == [1..n -> Records(closes)]

SeriesOf(closes, max) == UNION {SeriesOfLen(closes, n) : n \in 0..max}

Min(a, b) == IF a < b THEN a ELSE b

\* The key orders of the data argument of backtest: no asset, one (a single
\* DataFrame becomes the one-key dict of lines 64-67), or two.
AssetNames == <<"A", "B", "C", "D", "E">>

OrderOf(n_assets) == SubSeq(AssetNames, 1, n_assets)

Keys(o) == {o[i] : i \in 1..Len(o)}

\* The families of runs explored.  Well-formed runs call backtest once on a
\* fresh instance, on zero to two assets (two series are drawn independently,
\* so either may be the longer one); identical runs give every one of up to
\* MaxAssets assets the same series; repeated runs call backtest again and
\* again on one instance with the same single-asset data; malformed runs have
\* a capital <= 0, or a close <= 0 somewhere in the series.
WellFormedRuns ==
  {[assets |-> n, same |-> FALSE, closes |-> GoodCloses, configs |-> GoodConfigs,
    calls |-> {1}] : n \in 0..2}

IdenticalRuns ==
  {[assets |-> n, same |-> TRUE, closes |-> GoodCloses, configs |-> GoodConfigs,
    calls |-> {1}] : n \in 2..MaxAssets}

RepeatedRuns ==
  {[assets |-> 1, same |-> FALSE, closes |-> GoodCloses, configs |-> GoodConfigs,
    calls |-> 2..MaxCalls]}

MalformedRuns ==
  {[assets |-> 1, same |-> FALSE, closes |-> GoodCloses, configs |-> BadConfigs,
    calls |-> {1}],
   [assets |-> 1, same |-> FALSE, closes |-> GoodCloses \cup BadCloses,
    configs |-> {<<Num(40), Num(1)>>}, calls |-> {1}]}

Runs == WellFormedRuns \cup IdenticalRuns \cup RepeatedRuns \cup MalformedRuns

\* The lengths the series of the first and of the second asset may have.
FirstLen(run) == IF run.assets >= 1 THEN MaxLen ELSE 0

SecondLen(run, first) ==
  IF run.assets >= 2 /\ ~run.same THEN Min(MaxLen, MaxRows - Len(first)) ELSE 0

\* ------------------------------------------------------------- state

NoAsset == "-"

VARIABLES
  initial_capital,          \* self.initial_capital
  commission_pct,           \* self.commission_pct
  commission_fixed,         \* self.commission_fixed
  assets_data,              \* self.assets_data: asset -> cash, positions, ...
  portfolio_history,        \* self.portfolio_history: asset -> list
  daily_portfolio_values,   \* self.daily_portfolio_values
  order,                    \* the keys of the data argument, in dict order
  data,                     \* the data argument: asset -> rows
  n_calls,                  \* how many times the caller runs backtest(data)
  pc,                       \* "idle", "loop" (inside backtest), "done", "error"
  pending,                  \* the keys the for loop of line 69 has yet to visit
  asset,                    \* the loop variable of line 69
  rows_seen,                \* rows the for loop of line 78 has visited
  calls,                    \* number of backtest calls started
  before,                   \* history: assets_data[asset] before the last row
  trade_log,                \* history: the trades executed by the current call
  perf_call,                \* a call of a function of performance.py: fn, arguments
  perf_result               \* <<>> until that call ends, then <<its outcome>>

vars == <<initial_capital, commission_pct, commission_fixed, assets_data,
          portfolio_history, daily_portfolio_values, order, data, n_calls, pc,
          pending, asset, rows_seen, calls, before, trade_log, perf_call,
          perf_result>>

\* The mutable fields of the Backtester object, as one record.
Self ==
  [assets_data |-> assets_data,
   portfolio_history |-> portfolio_history,
   daily_portfolio_values |-> daily_portfolio_values]

\* A Backtester as __init__ leaves it.
Fresh ==
  [assets_data |-> <<>>,
   portfolio_history |-> <<>>,
   daily_portfolio_values |-> <<>>]

\* d[k] = v on a dict (a new key is added, an old one overwritten).
Put(d, k, v) == [x \in DOMAIN d \cup {k} |-> IF x = k THEN v ELSE d[x]]

\* ------------------------------------------------------------- operations

\* Faulty variant: the fixed fee is charged on top of the percentage fee.
calculate_commission_sum(trade_value) ==
  Add(Mul(trade_value, commission_pct), commission_fixed)

calculate_commission(trade_value) ==
  Max2(Mul(trade_value, commission_pct), commission_fixed)

\* Faulty variant: a positive signal buys whatever the cash is.
TradeKind_ignores_cash(ad, signal) ==
  IF signal > 0 THEN "buy"
  ELSE IF signal < 0 /\ Gt(ad.positions, Zero) THEN "sell"
  ELSE "none"

\* Faulty variant: a negative signal sells whatever the position is.
TradeKind_ignores_positions(ad, signal) ==
  IF signal > 0 /\ Gt(ad.cash, Zero) THEN "buy"
  ELSE IF signal < 0 THEN "sell"
  ELSE "none"

\* Faulty variant: a zero signal buys as a positive one does.
TradeKind_zero_buys(ad, signal) ==
  IF signal >= 0 /\ Gt(ad.cash, Zero) THEN "buy"
  ELSE IF signal < 0 /\ Gt(ad.positions, Zero) THEN "sell"
  ELSE "none"

\* Which branch of execute_trade a signal takes on an asset's state.
TradeKind(ad, signal) ==
  IF signal > 0 /\ Gt(ad.cash, Zero) THEN "buy"
  ELSE IF signal < 0 /\ Gt(ad.positions, Zero) THEN "sell"
  ELSE "none"

\* Faulty variant: a buy leaves the cash it spent in the account.
execute_trade_keeps_cash(assets, a, signal, price) ==
  LET ad == assets[a]
      kind == TradeKind(ad, signal)
  IN IF kind = "buy" THEN
       LET trade_value == ad.cash
           commission == calculate_commission(trade_value)
           shares_to_buy == Div(Sub(trade_value, commission), price)
       IN [assets EXCEPT ![a].positions = Add(@, shares_to_buy)]
     ELSE IF kind = "sell" THEN
       LET trade_value == Mul(ad.positions, price)
           commission == calculate_commission(trade_value)
       IN [assets EXCEPT ![a].cash = Add(@, Sub(trade_value, commission)),
                         ![a].positions = Zero]
     ELSE assets

\* Faulty variant: a sale closes the positions of every asset.
execute_trade_closes_all(assets, a, signal, price) ==
  LET ad == assets[a]
      kind == TradeKind(ad, signal)
  IN IF kind = "buy" THEN
       LET trade_value == ad.cash
           commission == calculate_commission(trade_value)
           shares_to_buy == Div(Sub(trade_value, commission), price)
       IN [assets EXCEPT ![a].positions = Add(@, shares_to_buy),
                         ![a].cash = Sub(@, trade_value)]
     ELSE IF kind = "sell" THEN
       LET trade_value == Mul(ad.positions, price)
           commission == calculate_commission(trade_value)
       IN [k \in DOMAIN assets |->
             IF k = a
               THEN [ad EXCEPT !.cash = Add(@, Sub(trade_value, commission)),
                               !.positions = Zero]
               ELSE [assets[k] EXCEPT !.positions = Zero]]
     ELSE assets

\* Faulty variant: a buy is charged the commission twice.
execute_trade_double_fee(assets, a, signal, price) ==
  LET ad == assets[a]
      kind == TradeKind(ad, signal)
  IN IF kind = "buy" THEN
       LET trade_value == ad.cash
           commission == calculate_commission(trade_value)
           shares_to_buy ==
             Div(Sub(Sub(trade_value, commission), commission), price)
       IN [assets EXCEPT ![a].positions = Add(@, shares_to_buy),
                         ![a].cash = Sub(@, trade_value)]
     ELSE IF kind = "sell" THEN
       LET trade_value == Mul(ad.positions, price)
           commission == calculate_commission(trade_value)
       IN [assets EXCEPT ![a].cash = Add(@, Sub(trade_value, commission)),
                         ![a].positions = Zero]
     ELSE assets

\* Faulty variant: a sale credits the gross trade value, without the commission.
execute_trade_gross_sale(assets, a, signal, price) ==
  LET ad == assets[a]
      kind == TradeKind(ad, signal)
  IN IF kind = "buy" THEN
       LET trade_value == ad.cash
           commission == calculate_commission(trade_value)
           shares_to_buy == Div(Sub(trade_value, commission), price)
       IN [assets EXCEPT ![a].positions = Add(@, shares_to_buy),
                         ![a].cash = Sub(@, trade_value)]
     ELSE IF kind = "sell" THEN
       LET trade_value == Mul(ad.positions, price)
       IN [assets EXCEPT ![a].cash = Add(@, trade_value),
                         ![a].positions = Zero]
     ELSE assets

execute_trade(assets, a, signal, price) ==
  LET ad == assets[a]
      kind == TradeKind(ad, signal)
  IN IF kind = "buy" THEN
       LET trade_value == ad.cash
           commission == calculate_commission(trade_value)
           shares_to_buy == Div(Sub(trade_value, commission), price)
       IN [assets EXCEPT ![a].positions = Add(@, shares_to_buy),
                         ![a].cash = Sub(@, trade_value)]
     ELSE IF kind = "sell" THEN
       LET trade_value == Mul(ad.positions, price)
           commission == calculate_commission(trade_value)
       IN [assets EXCEPT ![a].cash = Add(@, Sub(trade_value, commission)),
                         ![a].positions = Zero]
     ELSE assets

\* Faulty variant: total_value leaves the cash out.
update_portfolio_without_cash(self, a, price) ==
  LET position_value == Mul(self.assets_data[a].positions, price)
      total_value == position_value
  IN [self EXCEPT !.assets_data[a].position_value = position_value,
                  !.assets_data[a].total_value = total_value,
                  !.portfolio_history[a] = Append(@, total_value)]

update_portfolio(self, a, price) ==
  LET position_value == Mul(self.assets_data[a].positions, price)
      total_value == Add(self.assets_data[a].cash, position_value)
  IN [self EXCEPT !.assets_data[a].position_value = position_value,
                  !.assets_data[a].total_value = total_value,
                  !.portfolio_history[a] = Append(@, total_value)]

\* Faulty variant: every asset starts with the whole capital.
StartAsset_unsplit(self, a, n_assets) ==
  [self EXCEPT
     !.assets_data = Put(@, a, [cash |-> initial_capital,
                                positions |-> Zero,
                                position_value |-> Zero,
                                total_value |-> Zero]),
     !.portfolio_history = Put(@, a, <<>>)]

\* Lines 70-76: the asset's share of the capital and an empty history.
StartAsset(self, a, n_assets) ==
  [self EXCEPT
     !.assets_data = Put(@, a, [cash |-> Div(initial_capital, Num(n_assets)),
                                positions |-> Zero,
                                position_value |-> Zero,
                                total_value |-> Zero]),
     !.portfolio_history = Put(@, a, <<>>)]

\* Faulty variant: a later asset's value is added to the last entry, not the row's.
Aggregate_at_last(self, a, n_rows) ==
  LET total_value == self.assets_data[a].total_value
  IN IF Len(self.daily_portfolio_values) < n_rows
       THEN [self EXCEPT !.daily_portfolio_values = Append(@, total_value)]
       ELSE [self EXCEPT
               !.daily_portfolio_values[Len(self.daily_portfolio_values)] =
                  Add(@, total_value)]

\* Faulty variant: every row appends its value.
Aggregate_append_always(self, a, n_rows) ==
  [self EXCEPT !.daily_portfolio_values =
     Append(@, self.assets_data[a].total_value)]

\* Lines 82-89: append the asset's value or add it at the row's index.
Aggregate(self, a, n_rows) ==
  LET total_value == self.assets_data[a].total_value
  IN IF Len(self.daily_portfolio_values) < n_rows
       THEN [self EXCEPT !.daily_portfolio_values = Append(@, total_value)]
       ELSE [self EXCEPT
               !.daily_portfolio_values[Len(self.portfolio_history[a])] =
                  Add(@, total_value)]

\* Line 79: the object after self.execute_trade(asset, signal, price).
Traded(self, a, row) ==
  [self EXCEPT !.assets_data = execute_trade(@, a, row.signal, row.close)]

\* Faulty variant: the asset is revalued first and traded afterwards.
BacktestRow_revalues_first(self, a, row, n_rows) ==
  Traded(Aggregate(update_portfolio(self, a, row.close), a, n_rows), a, row)

\* Lines 79-89: one iteration of the row loop.
BacktestRow(self, a, row, n_rows) ==
  Aggregate(update_portfolio(Traded(self, a, row), a, row.close), a, n_rows)

\* Lines 78-89: the row loop over rows[i..], as a function (numpy rows: no
\* exception is raised).
RECURSIVE RunRows(_, _, _, _)
RunRows(self, a, rows, i) ==
  IF i > Len(rows) THEN self
  ELSE RunRows(BacktestRow(self, a, rows[i], Len(rows)), a, rows, i + 1)

\* Lines 69-89: the asset loop over the keys o[i..].
RECURSIVE RunAssets(_, _, _, _)
RunAssets(self, o, d, i) ==
  IF i > Len(o) THEN self
  ELSE RunAssets(RunRows(StartAsset(self, o[i], Len(o)), o[i], d[o[i]], 1),
                 o, d, i + 1)

\* backtest(data) as one function of the object it is called on.
backtest(self, o, d) == RunAssets(self, o, d, 1)

\* The trade a row executes, for the history variable trade_log.
TradeOf(ad, a, row) ==
  LET kind == TradeKind(ad, row.signal)
      trade_value == IF kind = "buy" THEN ad.cash ELSE Mul(ad.positions, row.close)
  IN IF kind = "none" THEN <<>>
     ELSE <<[asset |-> a, kind |-> kind, trade_value |-> trade_value,
             commission |-> calculate_commission(trade_value)]>>

\* ------------------------------------------------------------- performance.py

\* No function of performance.py is being called.
NoCall == [fn |-> "none"]

\* How a call ends: with a value, or with an exception that leaves it.
Returned(v) == [raised |-> "", value |-> v]
Raised(e) == [raised |-> e, value |-> NaN]

\* Arguments of calculate_sharpe_ratio. numbers tells what the operands of
\* the division are: "numpy" (np.float64, as calculate_performance passes
\* them) or "python" (both plain Python floats).
AnnualizedReturns == {Rat(-1, 10), Zero, Rat(1, 10)}
AnnualizedVolatilities == {Zero, Rat(1, 5), NaN}
RiskFreeRates == {Zero, Rat(1, 100)}
NumberKinds == {"numpy", "python"}

SharpeCalls ==
  {[fn |-> "calculate_sharpe_ratio", annualized_return |-> r,
    annualized_volatility |-> v, risk_free_rate |-> f, numbers |-> k] :
     r \in AnnualizedReturns, v \in AnnualizedVolatilities,
     f \in RiskFreeRates, k \in NumberKinds}

\* Arguments of calculate_maximum_drawdown: series of 1..MaxValues values.
PortfolioValues == {Num(-1), Num(1), Num(2), Num(3)}

DrawdownCalls ==
  {[fn |-> "calculate_maximum_drawdown", portfolio_values |-> v] :
     v \in UNION {[1..n -> PortfolioValues] : n \in 1..MaxValues}}

\* Lines 21-26. The division of line 24 yields +-inf or nan on numpy
\* operands (with a RuntimeWarning, which is no exception) and raises
\* ZeroDivisionError on Python floats; neither is a RuntimeError, so the
\* except clause of line 25 catches nothing and line 26 is never reached.
calculate_sharpe_ratio(annualized_return, annualized_volatility, risk_free_rate, numbers) ==
  IF numbers = "python" /\ annualized_volatility = Zero
    THEN Raised("ZeroDivisionError")
    ELSE Returned(Div(Sub(annualized_return, risk_free_rate),
                      annualized_volatility))

\* Faulty variant: the running maximum is the maximum of the whole series.
cummax_of_whole(values, t) ==
  LET RECURSIVE Largest(_)
      Largest(i) ==
        IF i = 1 THEN values[1]
        ELSE Max2(Largest(i - 1), values[i])
  IN Largest(Len(values))

\* Series.cummax at position t (line 42): the largest of values[1..t].
RECURSIVE cummax(_, _)
cummax(values, t) ==
  IF t = 1 THEN values[1]
  ELSE LET m == cummax(values, t - 1)
       IN IF Gt(values[t], m) THEN values[t] ELSE m

\* Series.min over the entries 1..t of a series without nan (line 43).
RECURSIVE SeriesMin(_, _)
SeriesMin(series, t) ==
  IF t = 1 THEN series[1]
  ELSE LET m == SeriesMin(series, t - 1)
       IN IF Gt(m, series[t]) THEN series[t] ELSE m

\* Lines 40-43.
calculate_maximum_drawdown(portfolio_values) ==
  LET drawdown == [t \in 1..Len(portfolio_values) |->
                     Sub(Div(portfolio_values[t], cummax(portfolio_values, t)),
                         Num(1))]
  IN SeriesMin(drawdown, Len(drawdown))

\* ------------------------------------------------------------- actions

Init ==
  \E run \in Runs :
    \E config \in run.configs, n \in run.calls :
      \E first \in SeriesOf(run.closes, FirstLen(run)) :
        \E second \in SeriesOf(run.closes, SecondLen(run, first)) :
          /\ initial_capital = config[1]
          /\ commission_pct = CommissionPct
          /\ commission_fixed = config[2]
          /\ order = OrderOf(run.assets)
          /\ data = [k \in Keys(OrderOf(run.assets)) |->
                       IF k = "A" \/ run.same THEN first ELSE second]
          /\ n_calls = n
          /\ assets_data = Fresh.assets_data
          /\ portfolio_history = Fresh.portfolio_history
          /\ daily_portfolio_values = Fresh.daily_portfolio_values
          /\ pc = "idle"
          /\ pending = <<>>
          /\ asset = NoAsset
          /\ rows_seen = 0
          /\ calls = 0
          /\ before = <<>>
          /\ perf_call = NoCall
          /\ perf_result = <<>>
          /\ trade_log = <<>>

Config ==
  <<initial_capital, commission_pct, commission_fixed, order, data, n_calls>>

\* backtest calls no function of performance.py.
Performance == <<perf_call, perf_result>>

\* The rows of the current asset are exhausted (or no asset was started).
RowsDone ==
  IF asset = NoAsset THEN TRUE
  ELSE rows_seen >= Len(data[asset])

NextRow == data[asset][rows_seen + 1]

SetSelf(self) ==
  /\ assets_data' = self.assets_data
  /\ portfolio_history' = self.portfolio_history
  /\ daily_portfolio_values' = self.daily_portfolio_values

\* backtest(data) is called, on a fresh instance or on one already used.
Call ==
  /\ pc \in {"idle", "done"}
  /\ calls < n_calls
  /\ pc' = "loop"
  /\ pending' = order
  /\ asset' = NoAsset
  /\ rows_seen' = 0
  /\ calls' = calls + 1
  /\ before' = <<>>
  /\ trade_log' = <<>>
  /\ UNCHANGED <<Config, Performance, assets_data, portfolio_history,
               daily_portfolio_values>>

\* for asset in data: the next key, lines 69-76.
NextAsset ==
  /\ pc = "loop"
  /\ RowsDone
  /\ pending # <<>>
  /\ asset' = Head(pending)
  /\ pending' = Tail(pending)
  /\ SetSelf(StartAsset(Self, Head(pending), Len(order)))
  /\ rows_seen' = 0
  /\ before' = <<>>
  /\ UNCHANGED <<Config, Performance, pc, calls, trade_log>>

\* float / 0 at line 43 when the row holds Python numbers (an object column).
DividesByZero ==
  /\ TradeKind(assets_data[asset], NextRow.signal) = "buy"
  /\ NextRow.close = Zero

\* One row of the current asset, lines 78-89.
Row ==
  /\ pc = "loop"
  /\ ~RowsDone
  /\ SetSelf(BacktestRow(Self, asset, NextRow, Len(data[asset])))
  /\ before' = assets_data[asset]
  /\ rows_seen' = rows_seen + 1
  /\ trade_log' = trade_log \o TradeOf(assets_data[asset], asset, NextRow)
  /\ UNCHANGED <<Config, Performance, pc, pending, asset, calls>>

\* ZeroDivisionError leaves backtest at line 43, before any assignment.
Raise ==
  /\ pc = "loop"
  /\ ~RowsDone
  /\ DividesByZero
  /\ pc' = "error"
  /\ UNCHANGED <<Config, Performance, assets_data, portfolio_history,
                 daily_portfolio_values,
                 pending, asset, rows_seen, calls, before, trade_log>>

\* The for loop of line 69 is exhausted: backtest returns.
Return ==
  /\ pc = "loop"
  /\ RowsDone
  /\ pending = <<>>
  /\ pc' = "done"
  /\ UNCHANGED <<Config, Performance, assets_data, portfolio_history,
                 daily_portfolio_values,
                 pending, asset, rows_seen, calls, before, trade_log>>

Next == Call \/ NextAsset \/ Row \/ Raise \/ Return

Spec == Init /\ [][Next]_vars

\* ------------------------------------------------------------- performance calls

\* A Backtester as __init__ leaves it and one call of a function of
\* performance.py on arguments of the caller's choice.
PerformanceInit ==
  /\ initial_capital = Num(40)
  /\ commission_pct = CommissionPct
  /\ commission_fixed = Num(1)
  /\ order = <<>>
  /\ data = <<>>
  /\ n_calls = 0
  /\ assets_data = Fresh.assets_data
  /\ portfolio_history = Fresh.portfolio_history
  /\ daily_portfolio_values = Fresh.daily_portfolio_values
  /\ pc = "idle"
  /\ pending = <<>>
  /\ asset = NoAsset
  /\ rows_seen = 0
  /\ calls = 0
  /\ before = <<>>
  /\ trade_log = <<>>
  /\ perf_call \in SharpeCalls \cup DrawdownCalls
  /\ perf_result = <<>>

Backtester ==
  <<Config, assets_data, portfolio_history, daily_portfolio_values, pc,
    pending, asset, rows_seen, calls, before, trade_log>>

Sharpe ==
  /\ perf_call.fn = "calculate_sharpe_ratio"
  /\ perf_result = <<>>
  /\ perf_result' = <<calculate_sharpe_ratio(perf_call.annualized_return,
                                             perf_call.annualized_volatility,
                                             perf_call.risk_free_rate,
                                             perf_call.numbers)>>
  /\ UNCHANGED <<Backtester, perf_call>>

Drawdown ==
  /\ perf_call.fn = "calculate_maximum_drawdown"
  /\ perf_result = <<>>
  /\ perf_result' = <<Returned(calculate_maximum_drawdown(perf_call.portfolio_values))>>
  /\ UNCHANGED <<Backtester, perf_call>>

PerformanceNext == Sharpe \/ Drawdown

PerformanceSpec == PerformanceInit /\ [][PerformanceNext]_vars

\* ------------------------------------------------------------- properties

\* The current asset has had a row processed by this call: before holds its
\* state ahead of that row, LastRow the row.
Stepped == before # <<>>

LastRow == data[asset][rows_seen]

Now == assets_data[asset]

\* max(v * commission_pct, commission_fixed), written out.
Fee(v) ==
  IF Gt(commission_fixed, Mul(v, commission_pct)) THEN commission_fixed
  ELSE Mul(v, commission_pct)

\* The state of the asset after a sale of all of before.positions at price.
Liquidated(price) ==
  LET trade_value == Mul(before.positions, price)
  IN /\ Now.positions = Zero
     /\ Now.cash = Add(before.cash, Sub(trade_value, Fee(trade_value)))

C1_HoldWitness ==
  /\ Stepped /\ LastRow.signal = 0 /\ Gt(before.positions, Zero)
  /\ Now.positions = before.positions

\* C2: execute_trade with signal > 0 on an asset with cash > 0 at a price > 0
\* commits all the cash: cash becomes 0 and positions grows by
\* (cash - commission(cash)) / price, commission(v) being
\* max(v * commission_pct, commission_fixed).
C2_BuyCommitsAllCash ==
  (Stepped /\ LastRow.signal > 0 /\ Gt(before.cash, Zero)
     /\ Gt(LastRow.close, Zero))
    => /\ Now.cash = Zero
       /\ Now.positions =
            Add(before.positions,
                Div(Sub(before.cash, Fee(before.cash)), LastRow.close))

\* A buy where the percentage fee applies, and one where the fixed fee does.
C2_Witness ==
  /\ Stepped /\ LastRow.signal > 0 /\ Gt(before.cash, Zero)
  /\ Gt(LastRow.close, Zero)
  /\ Gt(Now.positions, Zero)
  /\ Gt(Mul(before.cash, commission_pct), commission_fixed)

\* backtest has returned from its first call on the fresh instance.
FirstRunDone == pc = "done" /\ calls = 1

Lengths == {Len(data[k]) : k \in DOMAIN data}

RECURSIVE MaxOf(_)
MaxOf(S) ==
  IF S = {} THEN 0
  ELSE LET x == CHOOSE y \in S : TRUE
           m == MaxOf(S \ {x})
       IN IF x > m THEN x ELSE m

\* The sum over the assets of o that have an i-th record of that record's
\* total_value.
RECURSIVE SumAt(_, _)
SumAt(o, i) ==
  IF o = <<>> THEN Zero
  ELSE IF Len(portfolio_history[Head(o)]) >= i
    THEN Add(portfolio_history[Head(o)][i], SumAt(Tail(o), i))
    ELSE SumAt(Tail(o), i)

\* C3: after backtest on a fresh instance over N >= 1 assets whose series all
\* have the same length L, daily_portfolio_values[i] is, for every step
\* i < L, the sum over all assets of portfolio_history[asset][i].
C3_EqualLengthSum ==
  (FirstRunDone /\ Len(order) >= 1 /\ Cardinality(Lengths) = 1)
    => \A i \in 1..MaxOf(Lengths) :
         /\ i <= Len(daily_portfolio_values)
         /\ daily_portfolio_values[i] = SumAt(order, i)

\* Two assets of two rows each, one of which traded.
C3_Witness ==
  /\ FirstRunDone /\ Len(order) = 2 /\ Lengths = {2}
  /\ trade_log # <<>>
  /\ \A k \in DOMAIN data : Len(portfolio_history[k]) = 2

\* C4 as stated: whatever the lengths and the order of the assets,
\* daily_portfolio_values[i] is the sum of portfolio_history[asset][i] over
\* exactly the assets that have an i-th record.
C4_PositionalAggregation ==
  FirstRunDone
    => \A i \in 1..Len(daily_portfolio_values) :
         daily_portfolio_values[i] = SumAt(order, i)

\* C5: after backtest on a fresh instance the length of
\* daily_portfolio_values is the number of records of the longest series,
\* whatever the lengths and their order; with no asset it is empty.
C5_LengthIsLongestSeries ==
  FirstRunDone => Len(daily_portfolio_values) = MaxOf(Lengths)

\* The shorter series came first and the longer one extended the list.
C5_Witness ==
  /\ FirstRunDone /\ Len(order) = 2
  /\ Len(data[order[1]]) = 1 /\ Len(data[order[2]]) = 3
  /\ Len(daily_portfolio_values) = 3

\* Every asset carries the series of the first one.
IdenticalSeries == \A k \in DOMAIN data : data[k] = data[order[1]]

\* What backtest leaves in daily_portfolio_values on a fresh instance given
\* the first asset's series alone, with the full initial_capital.
SingleAssetValues ==
  backtest(Fresh, <<order[1]>>,
           [k \in {order[1]} |-> data[order[1]]]).daily_portfolio_values

\* No trade of the run was charged the fixed fee in place of a larger
\* percentage fee: each paid trade_value * commission_pct.
PercentageFeesOnly ==
  \A t \in 1..Len(trade_log) :
    trade_log[t].commission = Mul(trade_log[t].trade_value, commission_pct)

\* C6 as stated: N >= 1 assets that all carry the same series yield, at
\* every step, the daily_portfolio_values of a single asset with that series
\* and the full initial_capital.
C6_ScaleInvariance ==
  (FirstRunDone /\ Len(order) >= 1 /\ IdenticalSeries)
    => daily_portfolio_values = SingleAssetValues

\* C6 amended: the same, provided no trade of the N-asset run falls under
\* the fixed minimum fee (each pays trade_value * commission_pct).
C6_ScaleInvarianceOfPercentageFees ==
  (FirstRunDone /\ Len(order) >= 1 /\ IdenticalSeries /\ PercentageFeesOnly)
    => daily_portfolio_values = SingleAssetValues

\* Three assets with one series that bought and sold, under a fixed fee > 0
\* that never applied.
C6_Witness ==
  /\ FirstRunDone /\ Len(order) = 3 /\ IdenticalSeries /\ PercentageFeesOnly
  /\ Gt(commission_fixed, Zero)
  /\ \E t \in 1..Len(trade_log) : trade_log[t].kind = "sell"
  /\ daily_portfolio_values = SingleAssetValues

NoPositiveSignal ==
  \A k \in DOMAIN data : \A i \in 1..Len(data[k]) : data[k][i].signal <= 0

\* C7 as stated: with no positive signal anywhere, the final entry of
\* daily_portfolio_values is initial_capital, whatever the lengths.
C7_FlatKeepsCapital ==
  (FirstRunDone /\ NoPositiveSignal /\ daily_portfolio_values # <<>>)
    => daily_portfolio_values[Len(daily_portfolio_values)] = initial_capital

\* C7 amended: with no positive signal anywhere no trade is executed, and
\* for series of equal length every entry of daily_portfolio_values, the
\* final one included, is initial_capital.
C7_FlatKeepsCapitalOnEqualLengths ==
  (calls = 1 /\ NoPositiveSignal)
    => /\ trade_log = <<>>
       /\ (pc = "done" /\ Cardinality(Lengths) = 1) =>
            /\ Len(daily_portfolio_values) = MaxOf(Lengths)
            /\ \A i \in 1..Len(daily_portfolio_values) :
                 daily_portfolio_values[i] = initial_capital

\* Two assets of two rows each, with a price that moves, and no positive
\* signal.
C7_Witness ==
  /\ FirstRunDone /\ NoPositiveSignal /\ Len(order) = 2 /\ Lengths = {2}
  /\ \E k \in DOMAIN data : data[k][1].close # data[k][2].close
  /\ daily_portfolio_values[2] = initial_capital

\* One asset whose closes are all the same positive price.
SingleAssetConstantPrice ==
  /\ Len(order) = 1
  /\ \A i \in 1..Len(data[order[1]]) :
       /\ data[order[1]][i].close = data[order[1]][1].close
       /\ Gt(data[order[1]][i].close, Zero)

\* The run executed exactly one buy and, later, exactly one sell.
OneEntryOneExit ==
  /\ Len(trade_log) = 2
  /\ trade_log[1].kind = "buy"
  /\ trade_log[2].kind = "sell"

\* C8: a single asset on a constant price with exactly one entry followed by
\* exactly one exit ends at initial_capital - commission(initial_capital)
\* - commission(initial_capital - commission(initial_capital)).
C8_RoundTripCostsTwoCommissions ==
  (FirstRunDone /\ SingleAssetConstantPrice /\ OneEntryOneExit)
    => LET bought == Sub(initial_capital, Fee(initial_capital))
       IN daily_portfolio_values[Len(daily_portfolio_values)] =
            Sub(bought, Fee(bought))

C8_Witness ==
  /\ FirstRunDone /\ SingleAssetConstantPrice /\ OneEntryOneExit
  /\ Len(data[order[1]]) = 3
  /\ Gt(initial_capital, daily_portfolio_values[3])

\* The input is malformed: a capital <= 0, or a record with close <= 0.
Malformed ==
  \/ ~Gt(initial_capital, Zero)
  \/ \E k \in DOMAIN data : \E i \in 1..Len(data[k]) :
       ~Gt(data[k][i].close, Zero)

\* C9 as stated: on malformed input backtest ends in an error instead of
\* executing trades and appending portfolio values: it never returns
\* normally, and nothing is traded or appended.
C9_MalformedInputFailsFast ==
  Malformed
    => /\ pc # "done"
       /\ trade_log = <<>>
       /\ daily_portfolio_values = <<>>

\* C10 as stated: whenever backtest has returned, on the first call or on a
\* later one with the same data, daily_portfolio_values is what one call on
\* a fresh instance produces.
C10_StatelessAcrossRuns ==
  pc = "done"
    => daily_portfolio_values =
         backtest(Fresh, order, data).daily_portfolio_values

\* calculate_sharpe_ratio was called with annualized_volatility == 0 and the
\* call has ended.
SharpeOnZeroVolatility ==
  /\ perf_call.fn = "calculate_sharpe_ratio"
  /\ perf_call.annualized_volatility = Zero
  /\ perf_result # <<>>

\* C11 as stated: calculate_sharpe_ratio called with annualized_volatility == 0
\* returns nan: it does not raise and does not return an infinite value,
\* whatever annualized_return and risk_free_rate are.
C11_ZeroVolatilityYieldsNaN ==
  SharpeOnZeroVolatility
    => /\ perf_result[1].raised = ""
       /\ IsNaN(perf_result[1].value)

\* calculate_maximum_drawdown was called on a series of positive values and
\* the call has ended.
DrawdownOfPositiveSeries ==
  /\ perf_call.fn = "calculate_maximum_drawdown"
  /\ \A t \in DOMAIN perf_call.portfolio_values :
       Gt(perf_call.portfolio_values[t], Zero)
  /\ perf_result # <<>>

\* max(value[0..t]): a value of the prefix that none of the prefix exceeds.
PrefixMax(values, t) ==
  CHOOSE m \in {values[i] : i \in 1..t} : \A i \in 1..t : ~Gt(values[i], m)

\* value[t] / max(value[0..t]) - 1
DrawdownAt(values, t) == Sub(Div(values[t], PrefixMax(values, t)), Num(1))

NonDecreasing(values) ==
  \A t \in 1..(Len(values) - 1) : ~Gt(values[t], values[t + 1])

\* C12: for every non-empty series of positive portfolio values,
\* calculate_maximum_drawdown returns the minimum over t of
\* value[t] / max(value[0..t]) - 1; the result is always <= 0 and is 0
\* exactly when the series is non-decreasing.
C12_MaximumDrawdown ==
  DrawdownOfPositiveSeries
    => LET values == perf_call.portfolio_values
           result == perf_result[1].value
       IN /\ perf_result[1].raised = ""
          /\ \E t \in DOMAIN values : result = DrawdownAt(values, t)
          /\ \A t \in DOMAIN values : ~Gt(result, DrawdownAt(values, t))
          /\ ~Gt(result, Zero) /\ ~IsNaN(result)
          /\ (result = Zero) <=> NonDecreasing(values)

\* A series that falls from its peak and then rises above it: the drawdown
\* of the trough is returned.
C12_Witness ==
  /\ DrawdownOfPositiveSeries
  /\ perf_call.portfolio_values = <<Num(2), Num(1), Num(3)>>
  /\ perf_result[1].value = Rat(-1, 2)

\* a >= b on floats: false on nan.
Ge(a, b) == IF IsNaN(a) \/ IsNaN(b) THEN FALSE ELSE ~Gt(b, a)

\* C13 as stated: from initial_capital > 0 and prices > 0, whatever the
\* signals, every asset has cash >= 0 and positions >= 0 in every state that
\* backtest reaches, also where the cash of a buy or the proceeds of a sale
\* are smaller than the fixed commission.
C13_CashAndPositionsNeverNegative ==
  ~Malformed
    => \A k \in DOMAIN assets_data :
         /\ Ge(assets_data[k].cash, Zero)
         /\ Ge(assets_data[k].positions, Zero)

\* The trades the current call has executed on asset k, oldest first.
TradesOf(k) ==
  LET OnAsset(t) == t.asset = k
  IN SelectSeq(trade_log, OnAsset)

\* C14: long and flat exclude each other. No asset ever has cash > 0 and
\* positions > 0 at once; a buy never adds to an open position; and the
\* trades of an asset alternate, buy first: buy, sell, buy, ...
C14_LongAndFlatExcludeEachOther ==
  /\ \A k \in DOMAIN assets_data :
       ~(Gt(assets_data[k].cash, Zero) /\ Gt(assets_data[k].positions, Zero))
  /\ (Stepped /\ LastRow.signal > 0 /\ Gt(before.cash, Zero))
       => ~Gt(before.positions, Zero)
  /\ \A k \in DOMAIN data :
       \A i \in 1..Len(TradesOf(k)) :
         TradesOf(k)[i].kind = IF i % 2 = 1 THEN "buy" ELSE "sell"

\* The second of two assets bought, sold and bought again after the first
\* one had traded.
C14_Witness ==
  /\ Stepped /\ Len(order) = 2 /\ asset = order[2]
  /\ TradesOf(order[1]) # <<>>
  /\ Len(TradesOf(asset)) = 3
  /\ LastRow.signal > 0 /\ Gt(before.cash, Zero)
  /\ Gt(Now.positions, Zero) /\ Now.cash = Zero

\* The asset is already where the signal wants it: long (no cash left) on a
\* signal > 0, flat (no position) on a signal <= 0.
AlreadyThere(ad, signal) ==
  IF signal > 0 THEN ad.cash = Zero ELSE ad.positions = Zero

\* C15: execute_trade is a no-op when the asset is already in the requested
\* state: with signal > 0 and cash = 0, or signal <= 0 and positions = 0, the
\* asset's cash and positions are unchanged. In every case it leaves the
\* state of every other asset, all portfolio histories and
\* daily_portfolio_values unchanged. Stated of the execute_trade call of
\* every row the loop processes (after: the object as line 79 leaves it).
C15_NoOpAndFrame ==
  [][rows_seen' = rows_seen + 1
       => LET after == Traded(Self, asset, NextRow)
          IN /\ AlreadyThere(assets_data[asset], NextRow.signal)
                  => /\ after.assets_data[asset].cash = assets_data[asset].cash
                     /\ after.assets_data[asset].positions =
                          assets_data[asset].positions
                     /\ assets_data'[asset].cash = assets_data[asset].cash
                     /\ assets_data'[asset].positions =
                          assets_data[asset].positions
             /\ DOMAIN after.assets_data = DOMAIN assets_data
             /\ \A other \in DOMAIN assets_data \ {asset} :
                  after.assets_data[other] = assets_data[other]
             /\ after.portfolio_history = portfolio_history
             /\ after.daily_portfolio_values = daily_portfolio_values]_vars

\* The second of two assets, long after a buy, met another positive signal
\* under a fixed fee > 0 and kept its position, while the first asset holds
\* a position of its own.
C15_Witness ==
  /\ Stepped /\ Len(order) = 2 /\ asset = order[2]
  /\ LastRow.signal > 0 /\ before.cash = Zero /\ Gt(before.positions, Zero)
  /\ Gt(commission_fixed, Zero)
  /\ Now.positions = before.positions /\ Now.cash = Zero
  /\ Gt(assets_data[order[1]].positions, Zero)

\* C16: the trade comes before the revaluation. After the k-th record of an
\* asset, at price p, position_value = positions * p and
\* total_value = cash + positions * p for the cash and positions the trade
\* left; portfolio_history[asset] has exactly k entries and its last entry is
\* that total_value. When backtest returns every history is as long as its
\* series.
C16_TradeThenRevalue ==
  /\ Stepped =>
       /\ Now.position_value = Mul(Now.positions, LastRow.close)
       /\ Now.total_value = Add(Now.cash, Mul(Now.positions, LastRow.close))
       /\ Len(portfolio_history[asset]) = rows_seen
       /\ portfolio_history[asset][rows_seen] = Now.total_value
  /\ pc = "done" =>
       \A k \in DOMAIN data : Len(portfolio_history[k]) = Len(data[k])

\* The third record of an asset sold, under a fee, a position bought earlier.
C16_Witness ==
  /\ Stepped /\ rows_seen = 3
  /\ LastRow.signal < 0 /\ Gt(before.positions, Zero)
  /\ Gt(LastRow.close, Zero)
  /\ Now.positions = Zero
  /\ Gt(Add(before.cash, Mul(before.positions, LastRow.close)), Now.total_value)
  /\ Len(portfolio_history[asset]) = 3

\* Every order in which the assets of o can be processed.
Orders(o) ==
  {p \in [1..Len(o) -> Keys(o)] :
     \A i, j \in 1..Len(o) : p[i] = p[j] => i = j}

\* Asset k simulated by itself from a fresh instance, with the share of the
\* capital that backtest gives it.
Alone(k) == RunRows(StartAsset(Fresh, k, Len(order)), k, data[k], 1)

\* When backtest has returned from a call of equal-length series, every order
\* of the assets yields the daily_portfolio_values it left; and whenever it
\* has returned every asset is as its own series alone leaves it.
SameInEveryOrder ==
  /\ (FirstRunDone /\ Cardinality(Lengths) = 1)
       => \A o \in Orders(order) :
            backtest(Fresh, o, data).daily_portfolio_values =
              daily_portfolio_values
  /\ pc = "done"
       => \A k \in DOMAIN assets_data :
            LET alone == Alone(k)
            IN /\ assets_data[k] = alone.assets_data[k]
               /\ portfolio_history[k] = alone.portfolio_history[k]

\* C17: the simulations of the assets are independent. For series of equal
\* length the final daily_portfolio_values is the same for every order in
\* which the assets are processed; and processing one asset never changes
\* the cash, positions or history of another: no step changes the state or
\* the history of an asset other than the one it works on.
C17_AssetsAreIndependent ==
  /\ []SameInEveryOrder
  /\ [][\A k \in DOMAIN assets_data :
          k # asset' => /\ assets_data'[k] = assets_data[k]
                        /\ portfolio_history'[k] = portfolio_history[k]]_vars

\* Two assets with different series of two records each, both of which
\* bought and sold.
C17_Witness ==
  /\ FirstRunDone /\ Len(order) = 2 /\ Lengths = {2}
  /\ data[order[1]] # data[order[2]]
  /\ Len(TradesOf(order[1])) = 2 /\ Len(TradesOf(order[2])) = 2
  /\ backtest(Fresh, <<order[2], order[1]>>, data).daily_portfolio_values =
       daily_portfolio_values

\* cash_before + positions_before * p: what the asset was worth at the price
\* of the last row before that row traded.
WorthBefore == Add(before.cash, Mul(before.positions, LastRow.close))

\* C18: value is conserved at every step. For a record with price p > 0 the
\* asset's total_value after the step is cash_before + positions_before * p
\* less commission(trade_value) if a buy (trade_value: the cash) or a sell
\* (trade_value: positions * p) fired, and exactly
\* cash_before + positions_before * p if none did. No step creates value and
\* a trade costs exactly one commission.
C18_ValueConservation ==
  (Stepped /\ Gt(LastRow.close, Zero))
    => /\ Now.total_value =
            IF LastRow.signal > 0 /\ Gt(before.cash, Zero)
              THEN Sub(WorthBefore, Fee(before.cash))
            ELSE IF LastRow.signal < 0 /\ Gt(before.positions, Zero)
              THEN Sub(WorthBefore, Fee(Mul(before.positions, LastRow.close)))
            ELSE WorthBefore
       /\ ~Gt(Now.total_value, WorthBefore)

\* A buy at a price other than 1 that paid the percentage fee, and so less
\* value than before.
C18_Witness ==
  /\ Stepped /\ LastRow.close = Num(2)
  /\ LastRow.signal > 0 /\ Gt(before.cash, Zero)
  /\ Gt(Mul(before.cash, commission_pct), commission_fixed)
  /\ Now.total_value = Sub(before.cash, Mul(before.cash, commission_pct))
  /\ Gt(WorthBefore, Now.total_value)

\* cash <= 0 and positions <= 0: nothing left to buy with or to sell.
WipedOut(ad) == Ge(Zero, ad.cash) /\ Ge(Zero, ad.positions)

\* C19: a wiped-out asset stays as it is. Once an asset has cash <= 0 and
\* positions <= 0, no later record, whatever its signal and price, changes
\* its cash or positions: the record just processed did not, no call of
\* execute_trade in the state reached would, and the records still to come
\* of the asset in progress will not.
C19_WipedOutIsAbsorbing ==
  /\ (Stepped /\ WipedOut(before))
       => Now.cash = before.cash /\ Now.positions = before.positions
  /\ \A k \in DOMAIN assets_data :
       WipedOut(assets_data[k])
         => \A signal \in Signals, price \in GoodCloses \cup BadCloses :
              execute_trade(assets_data, k, signal, price) = assets_data
  /\ (pc = "loop" /\ asset # NoAsset)
       => (WipedOut(assets_data[asset])
             => LET end == RunRows(Self, asset, data[asset], rows_seen + 1)
                IN /\ end.assets_data[asset].cash = assets_data[asset].cash
                   /\ end.assets_data[asset].positions =
                        assets_data[asset].positions)

\* An asset whose cash was below the fixed fee bought a negative number of
\* shares; a later record with a negative signal left it as it was.
C19_Witness ==
  /\ Stepped /\ rows_seen >= 2 /\ ~Malformed
  /\ WipedOut(before) /\ Gt(Zero, before.positions)
  /\ LastRow.signal < 0
  /\ Now.cash = before.cash /\ Now.positions = before.positions

=============================================================================
